---- MODULE Spec2Model ----
(***************************************************************************)
(* Model of torchrec/metrics/ne.py: the Normalized Entropy metric.         *)
(*                                                                         *)
(* Number representation.  Weights and labels are integers.  Probabilities *)
(* (predictions, mean labels) are records [n, d, e] standing for the       *)
(* double n/d + e*eta, so that eta = 1e-12 and 1 - eta are exact values    *)
(* distinct from 0 and 1.  Non-finite doubles have d = 0: NaN is 0/0,      *)
(* +Inf is 1/0, -Inf is -1/0.  Every other double (a cross-entropy, a sum  *)
(* of weights) is a record [m, t] standing for m + t*tau, where            *)
(* tau = -log2(1 - eta) = 1.44e-12: m is a fixed-point integer (1/1000 bit *)
(* for cross-entropies, whole units for weights) and t counts the tiny     *)
(* terms, which never reach the resolution of m.  log2 is evaluated        *)
(* through a table of round(1000*log2(k)).  Sums are exact; a quotient is  *)
(* taken to leading order.  Reported metric values are records [k, v].     *)
(***************************************************************************)
EXTENDS Integers, Sequences, FiniteSets, TLC

\* ----------------------------------------------------------------- bounds
\* Largest number of examples (last tensor dimension) of a batch handed to
\* the kernel or the extractor on its own.
MaxBatch == 1
\* Largest number of accepted update calls of one engine.
MaxUpdates == 2
\* Capacity of the window, in examples.
WindowSize == 1
\* Number of batches shared out among the processes of the distributed run.
MaxDistBatches == 2

\* Task ids: the engine is built with n_tasks = 2.
Tasks == 1 .. 2

\* Numbers of examples of the batches handed to update.
UpdateBatchSizes == 0 .. 1

n_tasks == Cardinality(Tasks)

\* The examples batches are made of: a weighted positive, a weighted negative
\* whose prediction is exactly 1, a zero-weight example whose prediction is
\* exactly 0, and an example with a negative weight.  Predictions are in
\* quarters (prediction 3 is 0.75).
Examples ==
    { [label |-> 1, prediction |-> 3, weight |-> 1],
      [label |-> 0, prediction |-> 4, weight |-> 2],
      [label |-> 1, prediction |-> 0, weight |-> 0],
      [label |-> 0, prediction |-> 1, weight |-> -1] }

\* ------------------------------------------------------- double arithmetic
Prob(n, d) == [n |-> n, d |-> d, e |-> 0]

\* self.eta = 1e-12, as a probability.
eta == [n |-> 0, d |-> 1, e |-> 1]

\* 1.0 - x
OneMinus(x) ==
    IF x.d = 0 THEN [n |-> -x.n, d |-> 0, e |-> 0]
    ELSE [n |-> x.d - x.n, d |-> x.d, e |-> -x.e]

\* round(1000 * log2(k)) for k = 1 .. 40
Log2Table ==
    << 0, 1000, 1585, 2000, 2322, 2585, 2807, 3000, 3170, 3322,
       3459, 3585, 3700, 3807, 3907, 4000, 4087, 4170, 4248, 4322,
       4392, 4459, 4524, 4585, 4644, 4700, 4755, 4807, 4858, 4907,
       4954, 5000, 5044, 5087, 5129, 5170, 5209, 5248, 5285, 5322 >>

\* round(1000 * log2(1e-12))
Log2Eta == -39863

\* The double m + t*tau.
D(m, t) == [m |-> m, t |-> t]

DZero == D(0, 0)

DAdd(x, y) == D(x.m + y.m, x.t + y.t)

DSub(x, y) == D(x.m - y.m, x.t - y.t)

\* c * x for an integer c.
DScale(c, x) == D(c * x.m, c * x.t)

\* x >= y
DGeq(x, y) == x.m > y.m \/ (x.m = y.m /\ x.t >= y.t)

\* torch.log2 of a probability already clamped to [eta, 1 - eta]:
\* log2(eta), log2(1 - eta) = -tau, or log2(n) - log2(d).
log2(x) ==
    IF x.n = 0 THEN D(Log2Eta, 0)
    ELSE IF x.n = x.d THEN D(0, -1)
    ELSE D(Log2Table[x.n] - Log2Table[x.d], 0)

\* x < y on finite probabilities (d > 0): eta is below every positive rational
\* of the model, so the rational parts decide and the eta parts break ties.
ProbLess(x, y) ==
    \/ x.n * y.d < y.n * x.d
    \/ x.n * y.d = y.n * x.d /\ x.e < y.e

\* Tensor.clamp_(min=lo, max=hi) on one element.  NaN stays NaN, the
\* infinities go to the nearer end.
clamp_(x, lo, hi) ==
    IF x.d = 0
    THEN IF x.n = 0 THEN x ELSE IF x.n > 0 THEN hi ELSE lo
    ELSE IF ProbLess(x, lo) THEN lo
    ELSE IF ProbLess(hi, x) THEN hi
    ELSE x

\* Sum of a sequence of doubles: torch.sum(..., dim=-1) of one task's row.
RECURSIVE SumSeq(_)
SumSeq(s) == IF s = <<>> THEN DZero ELSE DAdd(Head(s), SumSeq(Tail(s)))

\* Reported values: a finite double in 1/1000 ("fin"), NaN ("nan"), an
\* infinity with sign v ("inf"), v*eta ("eta"), or a finite double beyond
\* the resolution: v/(1000*eta) ("perEta"), v/(1000*tau) ("perTau").
Fin(v) == [k |-> "fin", v |-> v]

NaN == [k |-> "nan", v |-> 0]

Inf(sign) == [k |-> "inf", v |-> sign]

Sign(x) == IF x > 0 THEN 1 ELSE IF x < 0 THEN -1 ELSE 0

\* Quotient towards zero of two integers, b # 0.
Quot(a, b) ==
    LET q == (IF a < 0 THEN -a ELSE a) \div (IF b < 0 THEN -b ELSE b)
    IN  IF Sign(a) * Sign(b) < 0 THEN -q ELSE q

\* round(1000 * tau / eta) = round(1000 / ln 2)
TauPerEta == 1443

\* a / b on two doubles of the same unit, to leading order, in 1/1000.
Divide(a, b) ==
    IF b.m # 0
    THEN Fin(Quot(a.m * 1000, b.m))
    ELSE IF b.t # 0
    THEN (IF a.m # 0 THEN [k |-> "perTau", v |-> Quot(a.m, b.t)]
          ELSE Fin(Quot(a.t * 1000, b.t)))
    ELSE IF a = DZero THEN NaN
    ELSE Inf(Sign(IF a.m # 0 THEN a.m ELSE a.t))

\* a / eta for a cross-entropy a, in 1/1000 bit.
DivideByEta(a) ==
    IF a.m # 0 THEN [k |-> "perEta", v |-> a.m]
    ELSE Fin(a.t * TauPerEta)

\* ------------------------------------------------------------ tensors
\* A tensor of shape (n_tasks, b) is a sequence over tasks of sequences over
\* examples.

\* Faulty variant of SumLast: torch.mean in place of torch.sum.
SumLast_Mean(x) ==
    [t \in DOMAIN x |->
        IF x[t] = <<>> THEN DZero
        ELSE D(Quot(SumSeq(x[t]).m, Len(x[t])), Quot(SumSeq(x[t]).t, Len(x[t])))]

\* torch.sum(x, dim=-1)
SumLast(x) == [t \in DOMAIN x |-> SumSeq(x[t])]

\* Element-wise sum of two per-task vectors.
VecAdd(a, b) == [t \in DOMAIN a |-> DAdd(a[t], b[t])]

VecSub(a, b) == [t \in DOMAIN a |-> DSub(a[t], b[t])]

\* Faulty variant of Zeros: torch.ones in place of torch.zeros.
Zeros_Ones == [t \in Tasks |-> D(1, 0)]

\* torch.zeros(self._n_tasks, dtype=torch.double)
Zeros == [t \in Tasks |-> DZero]

\* ------------------------------------------------------------- kernel
\* Tensor.double(): a float64 tensor is returned as it is (the same object),
\* any other dtype is converted into a new tensor.
DoubleIsSameObject(dtype) == dtype = "float64"

\* predictions.double() followed by predictions.clamp_(min=eta, max=1 - eta):
\* the tensor the logarithms read.
ClampedPredictions(predictions, eta_) ==
    [t \in DOMAIN predictions |->
        [i \in DOMAIN predictions[t] |->
            clamp_(predictions[t][i], eta_, OneMinus(eta_))]]

\* Faulty variant of compute_cross_entropy: the two terms are added with the wrong
\* sign.
compute_cross_entropy_SignFlipped(labels, predictions, weights, eta_) ==
    LET p == ClampedPredictions(predictions, eta_)
    IN  [t \in DOMAIN labels |->
            [i \in DOMAIN labels[t] |->
                DAdd(DScale(weights[t][i] * labels[t][i], log2(p[t][i])),
                     DScale(weights[t][i] * (1 - labels[t][i]),
                            log2(OneMinus(p[t][i]))))]]

\* compute_cross_entropy: the returned tensor, in 1/1000 bit.
compute_cross_entropy(labels, predictions, weights, eta_) ==
    LET p == ClampedPredictions(predictions, eta_)
    IN  [t \in DOMAIN labels |->
            [i \in DOMAIN labels[t] |->
                DSub(DScale(0 - weights[t][i] * labels[t][i], log2(p[t][i])),
                     DScale(weights[t][i] * (1 - labels[t][i]),
                            log2(OneMinus(p[t][i]))))]]

\* compute_cross_entropy: the caller's predictions tensor once the call has
\* returned.  clamp_ writes in place into what double() returned.
PredictionsAfterCrossEntropy(predictions, dtype, eta_) ==
    IF DoubleIsSameObject(dtype)
    THEN ClampedPredictions(predictions, eta_)
    ELSE predictions

\* ---------------------------------------------------------- extractor
StateNames ==
    <<"cross_entropy_sum", "weighted_num_samples", "pos_labels", "neg_labels">>

get_ne_states(labels, predictions, weights, eta_) ==
    LET cross_entropy == compute_cross_entropy(labels, predictions, weights, eta_)
    IN  [cross_entropy_sum |-> SumLast(cross_entropy),
         weighted_num_samples |->
            SumLast([t \in DOMAIN weights |->
                [i \in DOMAIN weights[t] |-> D(weights[t][i], 0)]]),
         pos_labels |->
            SumLast([t \in DOMAIN weights |->
                [i \in DOMAIN weights[t] |-> D(weights[t][i] * labels[t][i], 0)]]),
         neg_labels |->
            SumLast([t \in DOMAIN weights |->
                [i \in DOMAIN weights[t] |->
                    D(weights[t][i] * (1 - labels[t][i]), 0)]])]

\* ------------------------------------------------------------ formulas
\* pos_labels / weighted_num_samples on one task, as a probability (sums of
\* weights are whole numbers: their tau part is 0).
MeanLabel(pos, wns) ==
    IF wns.m = 0 THEN [n |-> Sign(pos.m), d |-> 0, e |-> 0]
    ELSE IF wns.m < 0 THEN Prob(0 - pos.m, 0 - wns.m)
    ELSE Prob(pos.m, wns.m)

\* _compute_cross_entropy_norm on one task: [nan, val], val in 1/1000 bit;
\* nan when the mean label is NaN (NaN times anything, 0 included, is NaN).
_compute_cross_entropy_norm(mean_label, pos_labels, neg_labels, eta_) ==
    LET m == clamp_(mean_label, eta_, OneMinus(eta_))
    IN  IF m.d = 0 THEN [nan |-> TRUE, val |-> DZero]
        ELSE [nan |-> FALSE,
              val |-> DSub(DScale(0 - pos_labels.m, log2(m)),
                           DScale(neg_labels.m, log2(OneMinus(m))))]

\* torch.tensor([eta])
EtaTensor(eta_) == << [k |-> "eta", v |-> eta_.e] >>

\* Faulty variant of All: any() in place of all().
All_Any(x) == \E t \in DOMAIN x : x[t] # DZero

\* weighted_num_samples.all(): every element is non-zero.
All(x) == \A t \in DOMAIN x : x[t] # DZero

\* Faulty variant of compute_ne: the sentinel is substituted whatever the flag says.
compute_ne_FlagIgnored(ce_sum, weighted_num_samples, pos_labels, neg_labels, eta_, allow_missing_label_with_zero_weight) ==
    IF \E t \in DOMAIN weighted_num_samples : weighted_num_samples[t] = DZero
    THEN << [k |-> "eta", v |-> eta_.e] >>
    ELSE [t \in DOMAIN ce_sum |->
            LET mean_label == MeanLabel(pos_labels[t], weighted_num_samples[t])
                ce_norm == _compute_cross_entropy_norm(
                               mean_label, pos_labels[t], neg_labels[t], eta_)
            IN  IF ce_norm.nan THEN NaN
                ELSE Divide(ce_sum[t], ce_norm.val)]

compute_ne(ce_sum, weighted_num_samples, pos_labels, neg_labels, eta_, allow_missing_label_with_zero_weight) ==
    IF allow_missing_label_with_zero_weight /\ ~All(weighted_num_samples)
    THEN EtaTensor(eta_)
    ELSE [t \in DOMAIN ce_sum |->
            LET mean_label == MeanLabel(pos_labels[t], weighted_num_samples[t])
                ce_norm == _compute_cross_entropy_norm(
                               mean_label, pos_labels[t], neg_labels[t], eta_)
            IN  IF ce_norm.nan THEN NaN
                ELSE Divide(ce_sum[t], ce_norm.val)]

\* compute_logloss: labels_sum.clamp_(min=eta) raises a sum below eta to
\* eta; otherwise ce_sum (1/1000 bit) is divided by a whole number.
compute_logloss(ce_sum, pos_labels, neg_labels, eta_) ==
    [t \in DOMAIN ce_sum |->
        LET labels_sum == DAdd(pos_labels[t], neg_labels[t])
        IN  IF ProbLess(Prob(labels_sum.m, 1), eta_)
            THEN DivideByEta(ce_sum[t])
            ELSE Divide(ce_sum[t], DScale(1000, labels_sum))]

\* ------------------------------------------------------------- engine
VARIABLES
    _include_logloss,
    _allow_missing_label_with_zero_weight,
    lifetime,       \* the four lifetime accumulators, by state name
    window,         \* the windowing collaborator's state, by state name
    call,           \* the most recent call on the engine, as the caller made it
                    \* (negative: its weights tensor holds a negative weight)
    ret,            \* what that call gave back to the caller
    numUpdates,     \* accepted update calls so far
    signedSeen,     \* some accepted batch held a negative weight
    \* a caller of the kernel and of the extractor
    callerB1,       \* the caller's first batch: labels, predictions, weights
    callerB2,       \* the caller's second batch
    fn,             \* the call made: what was called, the argument as it was
                    \* before the call, and what came back
    \* a distributed run beside a single engine
    distBatches,    \* the batches of the run
    pending,        \* indices of the batches no process has received yet
    procLifetime,   \* each process's lifetime accumulators
    reduced,        \* the outcome of the sum-reduction across the processes
    singleLeft,     \* indices of the batches the single engine has yet to get
    singleLifetime  \* the single engine's lifetime accumulators

fnVars == <<callerB1, callerB2, fn>>

distVars ==
    <<distBatches, pending, procLifetime, reduced, singleLeft, singleLifetime>>

engineVars ==
    <<_include_logloss, _allow_missing_label_with_zero_weight, lifetime,
      window, call, ret, numUpdates, signedSeen>>

StateNameSet == {StateNames[i] : i \in DOMAIN StateNames}

\* All batches of b examples: one row of examples per task.
BatchesOfSize(b) == [Tasks -> [1 .. b -> Examples]]

labelsOf(rows) == [t \in Tasks |-> [i \in DOMAIN rows[t] |-> rows[t][i].label]]

weightsOf(rows) == [t \in Tasks |-> [i \in DOMAIN rows[t] |-> rows[t][i].weight]]

predictionsOf(rows) ==
    [t \in Tasks |-> [i \in DOMAIN rows[t] |-> Prob(rows[t][i].prediction, 4)]]

HasNegativeWeight(rows) ==
    \E t \in Tasks : \E i \in DOMAIN rows[t] : rows[t][i].weight < 0

\* ------------------------------------------------ windowing collaborator
\* One windowed state: its running sum, the per-batch values still inside
\* the window with their example counts, and the examples they add up to.
EmptyWindow ==
    [state |-> Zeros, buffers |-> <<>>, size_buffers |-> <<>>, used_size |-> 0]

\* Drop the oldest batch from the window.
WindowRemove(w) ==
    [state |-> VecSub(w.state, Head(w.buffers)),
     buffers |-> Tail(w.buffers),
     size_buffers |-> Tail(w.size_buffers),
     used_size |-> w.used_size - Head(w.size_buffers)]

RECURSIVE WindowEvict(_)
WindowEvict(w) ==
    IF w.used_size > WindowSize THEN WindowEvict(WindowRemove(w)) ELSE w

\* aggregate_window(name, batch_value, batch_example_count): add the batch,
\* then drop the oldest batches while the window holds more examples than
\* its capacity.
_aggregate_window_state(w, state_value, num_samples) ==
    WindowEvict([state |-> VecAdd(w.state, state_value),
                 buffers |-> Append(w.buffers, state_value),
                 size_buffers |-> Append(w.size_buffers, num_samples),
                 used_size |-> w.used_size + num_samples])

\* read_window(name)
get_window_state(name) == window[name].state

\* The tensors of a batch as a caller holds them.
TensorsOf(rows, dtype) ==
    [labels |-> labelsOf(rows), predictions |-> predictionsOf(rows),
     weights |-> weightsOf(rows), dtype |-> dtype]

\* Processes of the distributed run.
Procs == {1, 2}

\* No kernel or extractor call in flight, no distributed run.
FnIdle ==
    /\ callerB1 = TensorsOf([t \in Tasks |-> <<>>], "float32")
    /\ callerB2 = TensorsOf([t \in Tasks |-> <<>>], "float32")
    /\ fn = [op |-> "none"]

DistIdle ==
    /\ distBatches = <<>>
    /\ pending = {}
    /\ procLifetime = [p \in Procs |-> [name \in StateNameSet |-> Zeros]]
    /\ reduced = [done |-> FALSE]
    /\ singleLeft = {}
    /\ singleLifetime = [name \in StateNameSet |-> Zeros]

\* -------------------------------------------------------------- actions
NoReturn == [kind |-> "None", reports |-> <<>>, logloss_calls |-> 0]

\* NEMetricComputation.__init__
EngineInit ==
    /\ _include_logloss \in BOOLEAN
    /\ _allow_missing_label_with_zero_weight \in BOOLEAN
    /\ lifetime = [name \in StateNameSet |-> Zeros]
    /\ window = [name \in StateNameSet |-> EmptyWindow]
    /\ call = [op |-> "__init__", predictions |-> TRUE, weights |-> TRUE,
               negative |-> FALSE]
    /\ ret = NoReturn
    /\ numUpdates = 0
    /\ signedSeen = FALSE

\* An engine built with the default options and never called.
EngineIdle ==
    /\ EngineInit
    /\ ~_include_logloss
    /\ ~_allow_missing_label_with_zero_weight

Init == EngineInit /\ FnIdle /\ DistIdle

\* Faulty variant of AddStates: the state is assigned, not added to.
AddStates_Overwrite(life, states) ==
    [name \in StateNameSet |-> states[name]]

\* The loop of update over the extracted states: state += state_value.
AddStates(life, states) ==
    [name \in StateNameSet |-> VecAdd(life[name], states[name])]

\* Faulty variant of AggregateWindows: neg_labels is forwarded with an example count
\* of 0, so the window never counts it against its capacity.
AggregateWindows_SkewedCount(win, states, num_samples) ==
    [name \in StateNameSet |->
        _aggregate_window_state(win[name], states[name],
            IF name = "neg_labels" THEN 0 ELSE num_samples)]

\* The loop of update over the extracted states:
\* self._aggregate_window_state(state_name, state_value, num_samples).
AggregateWindows(win, states, num_samples) ==
    [name \in StateNameSet |->
        _aggregate_window_state(win[name], states[name], num_samples)]

\* update with predictions and weights present.
Update ==
    \E b \in UpdateBatchSizes : \E rows \in BatchesOfSize(b) :
        /\ numUpdates < MaxUpdates
        /\ LET states == get_ne_states(labelsOf(rows), predictionsOf(rows),
                                       weightsOf(rows), eta)
               num_samples == b
           IN  /\ lifetime' = AddStates(lifetime, states)
               /\ window' = AggregateWindows(window, states, num_samples)
        /\ call' = [op |-> "update", predictions |-> TRUE, weights |-> TRUE,
                    negative |-> HasNegativeWeight(rows)]
        /\ ret' = NoReturn
        /\ numUpdates' = numUpdates + 1
        /\ signedSeen' = (signedSeen \/ HasNegativeWeight(rows))
        /\ UNCHANGED <<_include_logloss, _allow_missing_label_with_zero_weight>>
        /\ UNCHANGED <<fnVars, distVars>>

\* Faulty variant of UpdateRejected: the window is cleared before the exception is
\* raised.
UpdateRejected_ClearsWindow(life, win) ==
    [lifetime |-> life, window |-> [name \in StateNameSet |-> EmptyWindow]]

\* What update does to the engine when predictions or weights is None.
UpdateRejected(life, win) == [lifetime |-> life, window |-> win]

\* update with predictions is None or weights is None: RecMetricException.
UpdateMissing ==
    \E hasPredictions \in BOOLEAN, hasWeights \in BOOLEAN :
        /\ ~(hasPredictions /\ hasWeights)
        /\ call' = [op |-> "update", predictions |-> hasPredictions,
                    weights |-> hasWeights, negative |-> FALSE]
        /\ ret' = [kind |-> "RecMetricException", reports |-> <<>>,
                   logloss_calls |-> 0]
        /\ lifetime' = UpdateRejected(lifetime, window).lifetime
        /\ window' = UpdateRejected(lifetime, window).window
        /\ UNCHANGED <<_include_logloss, _allow_missing_label_with_zero_weight,
                       numUpdates, signedSeen>>
        /\ UNCHANGED <<fnVars, distVars>>

Report(name, metric_prefix, value) ==
    [name |-> name, metric_prefix |-> metric_prefix, value |-> value]

\* Faulty variant of _compute: the WINDOW reports are computed from the lifetime
\* state.
_compute_WindowFromLifetime ==
    LET ne ==
            << Report("NE", "LIFETIME",
                   compute_ne(lifetime.cross_entropy_sum,
                              lifetime.weighted_num_samples,
                              lifetime.pos_labels, lifetime.neg_labels, eta,
                              _allow_missing_label_with_zero_weight)),
               Report("NE", "WINDOW",
                   compute_ne(lifetime.cross_entropy_sum,
                              lifetime.weighted_num_samples,
                              lifetime.pos_labels, lifetime.neg_labels, eta,
                              _allow_missing_label_with_zero_weight)) >>
        logloss ==
            << Report("LOG_LOSS", "LIFETIME",
                   compute_logloss(lifetime.cross_entropy_sum,
                                   lifetime.pos_labels, lifetime.neg_labels, eta)),
               Report("LOG_LOSS", "WINDOW",
                   compute_logloss(lifetime.cross_entropy_sum,
                                   lifetime.pos_labels, lifetime.neg_labels, eta)) >>
    IN  IF _include_logloss
        THEN [kind |-> "reports", reports |-> ne \o logloss, logloss_calls |-> 2]
        ELSE [kind |-> "reports", reports |-> ne, logloss_calls |-> 0]

\* _compute: the list of reports, and how many times compute_logloss ran.
_compute ==
    LET ne ==
            << Report("NE", "LIFETIME",
                   compute_ne(lifetime.cross_entropy_sum,
                              lifetime.weighted_num_samples,
                              lifetime.pos_labels, lifetime.neg_labels, eta,
                              _allow_missing_label_with_zero_weight)),
               Report("NE", "WINDOW",
                   compute_ne(get_window_state("cross_entropy_sum"),
                              get_window_state("weighted_num_samples"),
                              get_window_state("pos_labels"),
                              get_window_state("neg_labels"), eta,
                              _allow_missing_label_with_zero_weight)) >>
        logloss ==
            << Report("LOG_LOSS", "LIFETIME",
                   compute_logloss(lifetime.cross_entropy_sum,
                                   lifetime.pos_labels, lifetime.neg_labels, eta)),
               Report("LOG_LOSS", "WINDOW",
                   compute_logloss(get_window_state("cross_entropy_sum"),
                                   get_window_state("pos_labels"),
                                   get_window_state("neg_labels"), eta)) >>
    IN  IF _include_logloss
        THEN [kind |-> "reports", reports |-> ne \o logloss, logloss_calls |-> 2]
        ELSE [kind |-> "reports", reports |-> ne, logloss_calls |-> 0]

Compute ==
    /\ ret' = _compute
    /\ call' = [op |-> "compute", predictions |-> TRUE, weights |-> TRUE,
                negative |-> FALSE]
    /\ UNCHANGED <<_include_logloss, _allow_missing_label_with_zero_weight,
                   lifetime, window, numUpdates, signedSeen>>
    /\ UNCHANGED <<fnVars, distVars>>

vars == <<engineVars, fnVars, distVars>>

Next == Update \/ UpdateMissing \/ Compute

Spec == Init /\ [][Next]_vars

\* ------------------------------------- the kernel and the extractor alone
\* torch.cat((a, b), dim=-1)
Cat(a, b) == [t \in DOMAIN a |-> a[t] \o b[t]]

Dtypes == {"float32", "float64"}

\* A caller holds one batch and has called nothing yet.
InitFn ==
    /\ EngineIdle
    /\ DistIdle
    /\ \E dtype \in Dtypes : \E b1 \in 0 .. MaxBatch :
        \E rows1 \in BatchesOfSize(b1) :
            /\ callerB1 = TensorsOf(rows1, dtype)
            /\ callerB2 = TensorsOf([t \in Tasks |-> <<>>], dtype)
    /\ fn = [op |-> "none"]

\* A caller holds two batches of one dtype, the second one of a size update
\* is handed, and has called nothing yet.
InitPair ==
    /\ EngineIdle
    /\ DistIdle
    /\ \E dtype \in Dtypes : \E b1 \in 0 .. MaxBatch, b2 \in UpdateBatchSizes :
        \E rows1 \in BatchesOfSize(b1), rows2 \in BatchesOfSize(b2) :
            /\ callerB1 = TensorsOf(rows1, dtype)
            /\ callerB2 = TensorsOf(rows2, dtype)
    /\ fn = [op |-> "none"]

\* A batch once a call that runs compute_cross_entropy on it has returned.
AfterCall(B) ==
    [B EXCEPT !.predictions = PredictionsAfterCrossEntropy(B.predictions, B.dtype, eta)]

\* The caller calls compute_cross_entropy on its first batch.
CallComputeCrossEntropy ==
    /\ fn' = [op |-> "compute_cross_entropy", before |-> callerB1,
               ret |-> compute_cross_entropy(callerB1.labels, callerB1.predictions,
                                             callerB1.weights, eta)]
    /\ callerB1' = AfterCall(callerB1)
    /\ UNCHANGED <<callerB2, engineVars, distVars>>

\* The caller calls get_ne_states on its first batch.
CallGetNeStates ==
    /\ fn' = [op |-> "get_ne_states", before |-> callerB1,
               ret |-> get_ne_states(callerB1.labels, callerB1.predictions,
                                     callerB1.weights, eta)]
    /\ callerB1' = AfterCall(callerB1)
    /\ UNCHANGED <<callerB2, engineVars, distVars>>

\* The caller extracts the states of each batch, then of the two batches
\* concatenated along the batch dimension.
ExtractPair ==
    /\ fn.op = "none"
    /\ LET B1 == AfterCall(callerB1)
           B2 == AfterCall(callerB2)
       IN  /\ fn' = [op |-> "extract_pair", before |-> callerB1,
                      ret |-> [b1 |-> get_ne_states(callerB1.labels,
                                          callerB1.predictions, callerB1.weights, eta),
                               b2 |-> get_ne_states(callerB2.labels,
                                          callerB2.predictions, callerB2.weights, eta),
                               cat |-> get_ne_states(Cat(B1.labels, B2.labels),
                                          Cat(B1.predictions, B2.predictions),
                                          Cat(B1.weights, B2.weights), eta)]]
           /\ callerB1' = B1
           /\ callerB2' = B2
    /\ UNCHANGED <<engineVars, distVars>>

NextFn == CallComputeCrossEntropy \/ CallGetNeStates

SpecFn == InitFn /\ [][NextFn]_vars

NextPair == ExtractPair

SpecPair == InitPair /\ [][NextPair]_vars

\* ------------------------------------------------------ distributed run
\* The batches the run may be made of.
UpdateBatches == UNION {BatchesOfSize(b) : b \in UpdateBatchSizes}

StatesOfBatch(rows) ==
    get_ne_states(labelsOf(rows), predictionsOf(rows), weightsOf(rows), eta)

\* Every process and the single engine are built; nothing has been received.
InitDist ==
    /\ EngineIdle
    /\ FnIdle
    /\ \E k \in 0 .. MaxDistBatches : distBatches \in [1 .. k -> UpdateBatches]
    /\ pending = DOMAIN distBatches
    /\ procLifetime = [p \in Procs |-> [name \in StateNameSet |-> Zeros]]
    /\ reduced = [done |-> FALSE]
    /\ singleLeft = DOMAIN distBatches
    /\ singleLifetime = [name \in StateNameSet |-> Zeros]

\* Process p receives one of the batches left and updates its own state.
ProcUpdate ==
    \E p \in Procs : \E i \in pending :
        /\ procLifetime' =
              [procLifetime EXCEPT ![p] = AddStates(@, StatesOfBatch(distBatches[i]))]
        /\ pending' = pending \ {i}
        /\ UNCHANGED <<distBatches, reduced, singleLeft, singleLifetime>>
        /\ UNCHANGED <<engineVars, fnVars>>

RECURSIVE SumOver(_, _)
SumOver(ps, life) ==
    IF ps = {} THEN [name \in StateNameSet |-> Zeros]
    ELSE LET p == CHOOSE q \in ps : TRUE
         IN  AddStates(SumOver(ps \ {p}, life), life[p])

\* dist_reduce_fx="sum": the element-wise sum of the processes' states.
ReduceSum(life) == SumOver(Procs, life)

\* The synchronization point, once every batch has been received.
AllReduce ==
    /\ pending = {}
    /\ ~reduced.done
    /\ reduced' = [done |-> TRUE, value |-> ReduceSum(procLifetime)]
    /\ UNCHANGED <<distBatches, pending, procLifetime, singleLeft, singleLifetime>>
    /\ UNCHANGED <<engineVars, fnVars>>

\* The single engine receives one of the batches it has yet to get; it is
\* run after the distributed run, which it shares nothing with.
SingleUpdate ==
    \E i \in singleLeft :
        /\ reduced.done
        /\ singleLifetime' = AddStates(singleLifetime, StatesOfBatch(distBatches[i]))
        /\ singleLeft' = singleLeft \ {i}
        /\ UNCHANGED <<distBatches, pending, procLifetime, reduced>>
        /\ UNCHANGED <<engineVars, fnVars>>

NextDist == ProcUpdate \/ AllReduce \/ SingleUpdate

SpecDist == InitDist /\ [][NextDist]_vars

\* ---------------------------------------------------------------- views
\* The window view of the four statistics.
WindowQuad == [name \in StateNameSet |-> get_window_state(name)]

Quad(scope) == IF scope = "LIFETIME" THEN lifetime ELSE WindowQuad

Scopes == {"LIFETIME", "WINDOW"}

\* At least one batch has left the window.
Evicted == numUpdates > Len(window["weighted_num_samples"].buffers)

\* The value of the NE report of a scope in what compute returned.
NEValue(scope) ==
    LET i == CHOOSE j \in DOMAIN ret.reports :
                 ret.reports[j].name = "NE" /\ ret.reports[j].metric_prefix = scope
    IN  ret.reports[i].value

\* ce_sum / ce_norm of task t of a quadruple, ce_norm from the clamped mean label.
NEFormula(q, t) ==
    LET norm == _compute_cross_entropy_norm(
                    MeanLabel(q.pos_labels[t], q.weighted_num_samples[t]),
                    q.pos_labels[t], q.neg_labels[t], eta)
    IN  IF norm.nan THEN NaN ELSE Divide(q.cross_entropy_sum[t], norm.val)

VecGeq(a, b) == \A t \in Tasks : DGeq(a[t], b[t])

\* x > y
DGreater(x, y) == DGeq(x, y) /\ x # y

\* --------------------------------------------------------------- properties
\* C1: in every reachable state, for every task, pos_labels + neg_labels
\* equals weighted_num_samples, in the lifetime accumulators and in the
\* window view.
C1_LabelMassInvariant ==
    \A scope \in Scopes : \A t \in Tasks :
        DAdd(Quad(scope).pos_labels[t], Quad(scope).neg_labels[t])
            = Quad(scope).weighted_num_samples[t]

\* C1 witness: a batch has been evicted, the window still holds weight for
\* task 1 and differs from the lifetime view.
C1_Witness ==
    /\ Evicted
    /\ WindowQuad.weighted_num_samples[1] # DZero
    /\ WindowQuad.weighted_num_samples[1] # lifetime.weighted_num_samples[1]
    /\ WindowQuad.pos_labels[1] # DZero

\* C2: with allow_missing_label_with_zero_weight set, the NE report of a
\* scope is the one-element vector [eta] when some task of that scope has
\* weighted_num_samples = 0, whatever the other tasks hold, and otherwise
\* the per-task formula result of length n_tasks.
C2_SentinelPolicy ==
    (ret.kind = "reports" /\ _allow_missing_label_with_zero_weight) =>
        \A scope \in Scopes :
            IF \E t \in Tasks : Quad(scope).weighted_num_samples[t] = DZero
            THEN NEValue(scope) = << [k |-> "eta", v |-> 1] >>
            ELSE /\ Len(NEValue(scope)) = n_tasks
                 /\ \A t \in Tasks : NEValue(scope)[t] = NEFormula(Quad(scope), t)

\* C2 witness: the flag is set, task 1 has zero lifetime weight while task 2
\* has not, and the lifetime report is the sentinel; the window holds
\* weight on every task and its report is per-task.
C2_Witness ==
    /\ ret.kind = "reports"
    /\ _allow_missing_label_with_zero_weight
    /\ lifetime.weighted_num_samples[1] = DZero
    /\ lifetime.weighted_num_samples[2] # DZero
    /\ Len(NEValue("LIFETIME")) = 1
    /\ \A t \in Tasks : WindowQuad.weighted_num_samples[t] # DZero
    /\ Len(NEValue("WINDOW")) = n_tasks

\* C3: a step that ends in an update call with predictions or weights
\* absent returns RecMetricException and leaves the lifetime accumulators
\* and the window state as they were.
C3_MissingInputRejected ==
    [][(call'.op = "update" /\ ~(call'.predictions /\ call'.weights)) =>
          /\ ret'.kind = "RecMetricException"
          /\ lifetime' = lifetime
          /\ window' = window]_vars

\* C3 witness: an update was rejected on an engine that had accumulated a
\* batch, whose window is not empty.
C3_Witness ==
    /\ ret.kind = "RecMetricException"
    /\ ~call.weights
    /\ numUpdates > 0
    /\ window["weighted_num_samples"].buffers # <<>>
    /\ lifetime.weighted_num_samples[1] # DZero

\* C4: compute returns NE/LIFETIME, NE/WINDOW, and with include_logloss
\* also LOG_LOSS/LIFETIME, LOG_LOSS/WINDOW, in this order; LIFETIME reports
\* are computed from the lifetime quadruple and WINDOW reports from the
\* window quadruple; compute_logloss does not run without include_logloss.
C4_ReportList ==
    ret.kind = "reports" =>
        LET r == ret.reports
            Ne(scope) ==
                Report("NE", scope,
                    compute_ne(Quad(scope).cross_entropy_sum,
                               Quad(scope).weighted_num_samples,
                               Quad(scope).pos_labels, Quad(scope).neg_labels,
                               eta, _allow_missing_label_with_zero_weight))
            LogLoss(scope) ==
                Report("LOG_LOSS", scope,
                    compute_logloss(Quad(scope).cross_entropy_sum,
                                    Quad(scope).pos_labels,
                                    Quad(scope).neg_labels, eta))
        IN  /\ Len(r) = IF _include_logloss THEN 4 ELSE 2
            /\ r[1] = Ne("LIFETIME")
            /\ r[2] = Ne("WINDOW")
            /\ _include_logloss => r[3] = LogLoss("LIFETIME") /\ r[4] = LogLoss("WINDOW")
            /\ ~_include_logloss => ret.logloss_calls = 0

\* C4 witness: four reports were returned while the window and lifetime
\* views differed in their NE and their log-loss values.
C4_Witness ==
    /\ ret.kind = "reports"
    /\ _include_logloss
    /\ Len(ret.reports) = 4
    /\ ret.reports[1].value # ret.reports[2].value
    /\ ret.reports[3].value # ret.reports[4].value

\* C6 as stated: every lifetime accumulator of every task is non-negative in
\* every reachable state and no step decreases it.
C6_AsStated ==
    [][\A name \in StateNameSet :
           /\ VecGeq(lifetime'[name], Zeros)
           /\ VecGeq(lifetime'[name], lifetime[name])]_vars

\* C6 amended: an accepted update whose weights are all non-negative leaves
\* every lifetime accumulator at or above its previous value; while no
\* accepted batch has held a negative weight the accumulators are
\* non-negative; compute and a rejected update leave them unchanged.
C6_MonotoneForNonNegativeWeights ==
    [][\A name \in StateNameSet :
           /\ (numUpdates' # numUpdates /\ ~call'.negative)
                 => VecGeq(lifetime'[name], lifetime[name])
           /\ ~signedSeen' => VecGeq(lifetime'[name], Zeros)
           /\ numUpdates' = numUpdates => lifetime'[name] = lifetime[name]]_vars

\* C6 witness: two batches of non-negative weights were accepted and every
\* accumulator of task 1 is positive.
C6_Witness ==
    /\ ~signedSeen
    /\ numUpdates >= 2
    /\ \A name \in StateNameSet : DGreater(lifetime[name][1], DZero)

C10_AsStated ==
    (ret.kind = "reports" /\ ~_allow_missing_label_with_zero_weight) =>
        \A scope \in Scopes :
            /\ Len(NEValue(scope)) = n_tasks
            /\ \A t \in Tasks :
                  IF Quad(scope).weighted_num_samples[t] = DZero
                  THEN NEValue(scope)[t].k \in {"nan", "inf"}
                  ELSE NEValue(scope)[t] = NEFormula(Quad(scope), t)

\* C10 amended: without the flag the NE report has one entry per task; a
\* task whose weighted_num_samples and pos_labels are both zero gets NaN;
\* a task with non-zero weighted_num_samples gets ce_sum / ce_norm.
C10_UnguardedDivision ==
    (ret.kind = "reports" /\ ~_allow_missing_label_with_zero_weight) =>
        \A scope \in Scopes :
            /\ Len(NEValue(scope)) = n_tasks
            /\ \A t \in Tasks :
                  /\ (Quad(scope).weighted_num_samples[t] = DZero
                        /\ Quad(scope).pos_labels[t] = DZero)
                        => NEValue(scope)[t] = NaN
                  /\ Quad(scope).weighted_num_samples[t] # DZero
                        => NEValue(scope)[t] = NEFormula(Quad(scope), t)

\* C10 witness: the flag is off, task 1 has no lifetime weight and reports
\* NaN, task 2 has weight and reports a finite value.
C10_Witness ==
    /\ ret.kind = "reports"
    /\ ~_allow_missing_label_with_zero_weight
    /\ lifetime.weighted_num_samples[1] = DZero
    /\ lifetime.pos_labels[1] = DZero
    /\ NEValue("LIFETIME")[1] = NaN
    /\ lifetime.weighted_num_samples[2] # DZero
    /\ NEValue("LIFETIME")[2].k = "fin"

\* C5: for two batches B1 and B2 of the same number of tasks and each of
\* the four statistics, get_ne_states(B1) + get_ne_states(B2) equals
\* get_ne_states of B1 and B2 concatenated along the batch dimension,
\* element-wise per task.
C5_ExtractorAdditive ==
    fn.op = "extract_pair" =>
        \A name \in StateNameSet : \A t \in Tasks :
            DAdd(fn.ret.b1[name][t], fn.ret.b2[name][t]) = fn.ret.cat[name][t]

\* C5 witness: two non-empty batches with different statistics were
\* extracted, and each carries cross-entropy and weight on task 1.
C5_Witness ==
    /\ fn.op = "extract_pair"
    /\ callerB1.labels[1] # <<>>
    /\ callerB2.labels[1] # <<>>
    /\ fn.ret.b1 # fn.ret.b2
    /\ fn.ret.b1.cross_entropy_sum[1] # DZero
    /\ fn.ret.b2.cross_entropy_sum[1] # DZero
    /\ fn.ret.cat.weighted_num_samples[1] # DZero

\* C8: once the processes have received all the batches between them and
\* their lifetime states have been summed, and a single engine has received
\* all the batches, the sum equals the single engine's lifetime quadruple,
\* in whatever order and to whichever process the batches went; so the
\* metrics computed from the two are equal.
C8_MergeEqualsSingleEngine ==
    (reduced.done /\ singleLeft = {}) =>
        /\ reduced.value = singleLifetime
        /\ \A flag \in BOOLEAN :
              compute_ne(reduced.value.cross_entropy_sum,
                         reduced.value.weighted_num_samples,
                         reduced.value.pos_labels, reduced.value.neg_labels,
                         eta, flag)
              = compute_ne(singleLifetime.cross_entropy_sum,
                           singleLifetime.weighted_num_samples,
                           singleLifetime.pos_labels, singleLifetime.neg_labels,
                           eta, flag)

\* C8 witness: the batches went to both processes, which hold different
\* non-zero states, and both the reduction and the single engine are done.
C8_Witness ==
    /\ reduced.done
    /\ singleLeft = {}
    /\ Len(distBatches) >= 2
    /\ procLifetime[1] # procLifetime[2]
    /\ \A p \in Procs : procLifetime[p].weighted_num_samples[1] # DZero
    /\ singleLifetime.cross_entropy_sum[1] # DZero

\* C9: a call of compute_cross_entropy or of get_ne_states leaves the
\* caller's labels, predictions and weights tensors as they were before it.
C9_CallerTensorsUnchanged ==
    fn.op \in {"compute_cross_entropy", "get_ne_states"} => callerB1 = fn.before

====
